---- MODULE Spec2Model ----
(***************************************************************************)
(* A model of rudiments, a step-sequencing drum machine.                   *)
(*                                                                         *)
(* main parses a pattern file and an instrumentation file line by line,    *)
(* audio::play binds the pattern to sample files (bind_tracks), mixes the  *)
(* tracks (mix_tracks) and renders the mix once or on repeat.              *)
(*                                                                         *)
(* Conventions of the model:                                               *)
(*  - a 16th-note step sequence (bitvec) is a sequence of BOOLEAN; the     *)
(*    code's 0-based step i is element i + 1;                              *)
(*  - an amplitude (f32) is an integer number of tenths, 10 being 1.0;     *)
(*  - a Duration is an exact rational <<n, d>> of seconds in lowest terms  *)
(*    (f32 rounding and the nanosecond grid are not modelled); <<0, 0>>    *)
(*    stands for the panic of a Duration constructor;                      *)
(*  - a line of a pattern file is a record of its blank-separated fields:  *)
(*    the instrument token, the step block (a sequence of characters) and  *)
(*    the amplitude field; the empty line has an empty instrument token.   *)
(***************************************************************************)
EXTENDS Integers, Sequences, FiniteSets, Bags, TLC

VARIABLES pc, tempo, repeat, patFile, pattern, insFile, instrumentation,
          tracks, aggregate_steps, visited, controller, rendered, err,
          arg, ret

vars == <<pc, tempo, repeat, patFile, pattern, insFile, instrumentation,
          tracks, aggregate_steps, visited, controller, rendered, err,
          arg, ret>>

----------------------------------------------------------------------------
(* Program constants (pattern.rs).                                         *)

STEPS_PER_MEASURE == 16

BEATS_PER_MEASURE == 4

STEP_PLAY == "x"

STEP_SILENT == "-"

SEPARATOR == "|"

(* A character that is neither a step, a separator, a blank nor part of a  *)
(* number.                                                                 *)
OTHER_CHAR == "o"

----------------------------------------------------------------------------
(* Generic helpers.                                                        *)

Min2(a, b) == IF a <= b THEN a ELSE b

MinOf(S) == CHOOSE m \in S : \A x \in S : m <= x

MaxOf(S) == CHOOSE m \in S : \A x \in S : x <= m

Range(s) == {s[i] : i \in DOMAIN s}

(* Every order in which a hash container may hand out the elements of S.   *)
Perms(S) ==
  {s \in [1..Cardinality(S) -> S] : \A i, j \in DOMAIN s : s[i] = s[j] => i = j}

(* The empty map, and a map extended or overwritten at one key.            *)
EmptyMap == [k \in {} |-> TRUE]

Put(m, k, v) == [x \in DOMAIN m \cup {k} |-> IF x = k THEN v ELSE m[x]]

RECURSIVE Gcd(_, _)
Gcd(a, b) == IF b = 0 THEN a ELSE Gcd(b, a % b)

Abs(a) == IF a < 0 THEN -a ELSE a

(* Exact rationals in lowest terms with a positive denominator.            *)
Rat(n, d) ==
  LET g == Gcd(Abs(n), Abs(d))
      s == IF d < 0 THEN -1 ELSE 1
  IN  <<(s * n) \div g, (s * d) \div g>>

RMul(a, b) == Rat(a[1] * b[1], a[2] * b[2])

RDiv(a, b) == Rat(a[1] * b[2], a[2] * b[1])

RAdd(a, b) == Rat(a[1] * b[2] + b[1] * a[2], a[2] * b[2])

RLess(a, b) == a[1] * b[2] < b[1] * a[2]

----------------------------------------------------------------------------
(* Steps and Amplitude (pattern.rs).                                       *)

(* The step sequence of length n that plays exactly at the 0-based steps   *)
(* in S.                                                                   *)
BitsOf(S, n) == [i \in 1..n |-> (i - 1) \in S]

zeros == [i \in 1..STEPS_PER_MEASURE |-> FALSE]

(* A faulty union: the other sequence is assigned instead of or-ed in.     *)
union_assign(self, other) == other

union(self, other) == [i \in DOMAIN self |-> self[i] \/ other[i]]

(* rposition: the 0-based index of the last true step, or -1 for None.     *)
rposition(self) ==
  IF \E i \in DOMAIN self : self[i]
  THEN MaxOf({i \in DOMAIN self : self[i]}) - 1
  ELSE -1

trailing_silent_steps(self) ==
  LET n == rposition(self)
  IN  IF n >= 0 THEN STEPS_PER_MEASURE - (n + 1) ELSE 0

AmplitudeMax == 10

(* A faulty min: the amplitude seen last wins.                              *)
AmplitudeMin_last(self, other) == other

AmplitudeMin(self, other) == Min2(self, other)

defaulting(o) == IF o = <<>> THEN 10 ELSE o[1]

----------------------------------------------------------------------------
(* The line parsers (pattern.rs, instrumentation.rs).  A parser result is  *)
(* a record with ok = FALSE for a nom error.                               *)

Failure == [ok |-> FALSE]

(* fold_many1 over alt(x, -, |): the longest prefix of step and separator  *)
(* characters, the steps pushed in order onto acc.                         *)
RECURSIVE fold_many(_, _, _)
fold_many(s, acc, n) ==
  IF s # <<>> /\ Head(s) \in {STEP_PLAY, STEP_SILENT, SEPARATOR}
  THEN fold_many(Tail(s),
                 IF Head(s) = STEP_PLAY THEN Append(acc, TRUE)
                 ELSE IF Head(s) = STEP_SILENT THEN Append(acc, FALSE)
                 ELSE acc,
                 n + 1)
  ELSE [rest |-> s, acc |-> acc, n |-> n]

(* A faulty parse_steps: the separators are counted as steps.              *)
parse_steps_counting_separators(s) ==
  LET p == fold_many(s, <<>>, 0)
  IN  IF p.n = 0 THEN Failure
      ELSE IF p.n # STEPS_PER_MEASURE THEN Failure
      ELSE [ok |-> TRUE, rest |-> p.rest, steps |-> p.acc]

(* A faulty parse_steps: the length of the result is not verified.         *)
parse_steps_unverified(s) ==
  LET p == fold_many(s, <<>>, 0)
  IN  IF p.n = 0 THEN Failure
      ELSE [ok |-> TRUE, rest |-> p.rest, steps |-> p.acc]

parse_steps(s) ==
  LET p == fold_many(s, <<>>, 0)
  IN  IF p.n = 0 THEN Failure
      ELSE IF Len(p.acc) # STEPS_PER_MEASURE THEN Failure
      ELSE [ok |-> TRUE, rest |-> p.rest, steps |-> p.acc]

(* A faulty parse_amplitude: the upper bound is not verified.              *)
parse_amplitude_unbounded(f) ==
  IF f.num # <<>> /\ ~(0 <= f.num[1])
  THEN Failure
  ELSE [ok |-> TRUE, rest |-> f.rest, value |-> f.num]

(* An amplitude field is [num, rest]: num is <<v>> when the field starts   *)
(* with a number of v tenths and <<>> otherwise; rest is what follows the  *)
(* number ("" for nothing).  opt(float) takes the number when there is     *)
(* one; verify rejects a number outside [0, 1].                            *)
parse_amplitude(f) ==
  IF f.num # <<>> /\ ~(0 <= f.num[1] /\ f.num[1] <= 10)
  THEN Failure
  ELSE [ok |-> TRUE, rest |-> f.rest, value |-> f.num]

(* parse_track: instrument, steps, optional amplitude, and nothing else.   *)
(* Characters left over by parse_steps are not a number, so opt(float)     *)
(* yields None on them and all_consuming fails.                            *)
parse_track(l) ==
  IF l.inst = "" THEN Failure
  ELSE LET st == parse_steps(l.block)
       IN  IF ~st.ok THEN Failure
           ELSE IF st.rest # <<>> THEN Failure
           ELSE LET am == parse_amplitude(l.amp)
                IN  IF ~am.ok THEN Failure
                    ELSE IF am.rest # "" THEN Failure
                    ELSE [ok |-> TRUE, inst |-> l.inst, steps |-> st.steps,
                          amp |-> defaulting(am.value)]

(* parse_binding: an instrument token, blanks, a sample file token.        *)
parse_binding(l) ==
  IF l.inst = "" THEN Failure
  ELSE IF l.file = "" THEN Failure
  ELSE [ok |-> TRUE, inst |-> l.inst, file |-> l.file]

----------------------------------------------------------------------------
(* Parse loops: what one line does to the map being built.  A result is    *)
(* the new map and the error returned, NoError when the loop goes on.      *)

NoError == [kind |-> "none"]

ParseError(l) == [kind |-> "ParseError", line |-> l]

DuplicatePatternError(l) == [kind |-> "DuplicatePatternError", line |-> l]

DuplicateInstrumentError(i) == [kind |-> "DuplicateInstrumentError", inst |-> i]

FileDoesNotExistError == [kind |-> "FileDoesNotExistError"]

IOError == [kind |-> "IOError"]

AudioDecoderError == [kind |-> "AudioDecoderError"]

AudioDeviceError == [kind |-> "AudioDeviceError"]

(* A faulty insert: the value that was there before is not reported.       *)
insert_silent(m, k, v) == [map |-> Put(m, k, v), old |-> <<>>]

(* HashMap::insert: the new map and the value that was there before.       *)
insert(m, k, v) ==
  [map |-> Put(m, k, v), old |-> IF k \in DOMAIN m THEN <<m[k]>> ELSE <<>>]

(* Pattern::parse, the body of the loop over the lines.                    *)
pattern_line(m, l) ==
  LET t == parse_track(l)
  IN  IF t.ok
      THEN LET r == insert(m, t.inst, [steps |-> t.steps, amp |-> t.amp])
           IN  IF r.old # <<>>
               THEN [map |-> r.map, err |-> DuplicatePatternError(l)]
               ELSE [map |-> r.map, err |-> NoError]
      ELSE [map |-> m, err |-> ParseError(l)]

(* A faulty loop body: the instrument is looked for only in the set of the *)
(* line's own sample file.                                                 *)
instrumentation_line_same_file(m, l) ==
  LET b == parse_binding(l)
  IN  IF b.ok
      THEN IF b.file \in DOMAIN m /\ b.inst \in m[b.file]
           THEN [map |-> m, err |-> DuplicateInstrumentError(b.inst)]
           ELSE IF b.file \in DOMAIN m
           THEN [map |-> Put(m, b.file, m[b.file] \cup {b.inst}), err |-> NoError]
           ELSE [map |-> Put(m, b.file, {b.inst}), err |-> NoError]
      ELSE [map |-> m, err |-> ParseError(l)]

(* Instrumentation::parse, the body of the loop over the lines.            *)
instrumentation_line(m, l) ==
  LET b == parse_binding(l)
  IN  IF b.ok
      THEN IF \E s \in DOMAIN m : b.inst \in m[s]
           THEN [map |-> m, err |-> DuplicateInstrumentError(b.inst)]
           ELSE IF b.file \in DOMAIN m
           THEN [map |-> Put(m, b.file, m[b.file] \cup {b.inst}), err |-> NoError]
           ELSE [map |-> Put(m, b.file, {b.inst}), err |-> NoError]
      ELSE [map |-> m, err |-> ParseError(l)]

----------------------------------------------------------------------------
(* The track binder (audio.rs).                                            *)

(* The closure of the fold over one sample file's instruments, applied to  *)
(* the instruments in the order is; acc carries the track's steps and      *)
(* amplitude and the aggregate step sequence the closure also updates.     *)
RECURSIVE bind_fold(_, _, _)
bind_fold(pat, is, acc) ==
  IF is = <<>> THEN acc
  ELSE LET instrument == Head(is)
       IN  bind_fold(pat, Tail(is),
             IF instrument \in DOMAIN pat
             THEN [aggregate |-> union(acc.aggregate, pat[instrument].steps),
                   steps |-> union(acc.steps, pat[instrument].steps),
                   amp |-> AmplitudeMin(acc.amp, pat[instrument].amp)]
             ELSE acc)

(* The map over the sample files in the order fo, each file's instrument   *)
(* set iterated in the order io[file].                                     *)
RECURSIVE bind_map(_, _, _, _, _)
bind_map(pat, fo, io, trs, agg) ==
  IF fo = <<>> THEN [tracks |-> trs, aggregate |-> agg]
  ELSE LET sample_file == Head(fo)
           r == bind_fold(pat, io[sample_file],
                          [aggregate |-> agg, steps |-> zeros, amp |-> AmplitudeMax])
       IN  bind_map(pat, Tail(fo), io,
                    Put(trs, sample_file, [steps |-> r.steps, amp |-> r.amp]),
                    r.aggregate)

bind_tracks(pat, fo, io) == bind_map(pat, fo, io, EmptyMap, zeros)

(* The iteration orders a HashMap of HashSets can produce.                 *)
FileOrders(ins) == Perms(DOMAIN ins)

InstrumentOrders(ins) ==
  {io \in [DOMAIN ins -> UNION {Perms(ins[f]) : f \in DOMAIN ins}] :
     \A f \in DOMAIN ins : Range(io[f]) = ins[f]}

----------------------------------------------------------------------------
(* Timing (audio.rs).                                                      *)

Panic == <<0, 0>>

IsPanic(d) == d[2] = 0

(* Duration::from_secs_f32 panics on a negative or non-finite value.       *)
from_secs_f32(r) == IF r[2] = 0 \/ r[1] < 0 THEN Panic ELSE r

(* Duration * u32 and Duration / u32.                                      *)
DurationMul(d, n) == IF IsPanic(d) THEN Panic ELSE RMul(d, Rat(n, 1))

DurationDiv(d, n) == IF IsPanic(d) THEN Panic ELSE RDiv(d, Rat(n, 1))

mul_f32(d, f) == IF IsPanic(d) THEN Panic ELSE from_secs_f32(RMul(f, d))

measure_duration(t) ==
  from_secs_f32(RDiv(Rat(1, 1),
                     RDiv(RDiv(Rat(t, 1), Rat(60, 1)), Rat(BEATS_PER_MEASURE, 1))))

step_duration(t) == DurationDiv(measure_duration(t), STEPS_PER_MEASURE)

delay_factor(t) == RAdd(RMul(RDiv(Rat(-1, 1), Rat(120, 1)), Rat(t, 1)), Rat(2, 1))

(* A faulty pad: the tempo-dependent factor is left out.                   *)
delay_pad_duration_unscaled(t, trailing) ==
  DurationMul(step_duration(t), trailing)

delay_pad_duration(t, trailing) ==
  DurationMul(mul_f32(step_duration(t), delay_factor(t)), trailing)

----------------------------------------------------------------------------
(* The mixer (audio.rs).                                                   *)

(* A faulty loop: silent steps are scheduled too.                          *)
RECURSIVE schedule_every_step(_, _, _, _, _)
schedule_every_step(t, sample_file, track, i, ctl) ==
  IF i >= Len(track.steps) THEN ctl
  ELSE schedule_every_step(t, sample_file, track, i + 1,
         ctl (+) SetToBag({[file |-> sample_file,
                            amplify |-> track.amp,
                            delay |-> DurationMul(step_duration(t), i)]}))

(* The loop of mix_tracks over the steps of one track from step i on: one  *)
(* delayed, amplified copy of the sample per playing step.                 *)
RECURSIVE schedule(_, _, _, _, _)
schedule(t, sample_file, track, i, ctl) ==
  IF i >= Len(track.steps) THEN ctl
  ELSE schedule(t, sample_file, track, i + 1,
         IF ~track.steps[i + 1] THEN ctl
         ELSE ctl (+) SetToBag({[file |-> sample_file,
                                 amplify |-> track.amp,
                                 delay |-> DurationMul(step_duration(t), i)]}))

----------------------------------------------------------------------------
(* The inputs: command line options, file lines, the samples directory.    *)

(* The most lines read from one file.                                      *)
MaxLines == 4

Tempos == {60, 120, 300}

(* The instrument tokens of the instrumentation files, and those of the    *)
(* pattern files: kick is bound to a sample but never played.              *)
Instruments == {"tom-1", "tom-2", "kick"}

PatInstruments == {"tom-1", "tom-2"}

SampleFiles == {"tom.wav", "kick.wav"}

(* The text of a step block: seps[k] separators after the first k steps.   *)
RECURSIVE SepRun(_)
SepRun(n) == IF n = 0 THEN <<>> ELSE <<SEPARATOR>> \o SepRun(n - 1)

RECURSIVE RenderFrom(_, _, _)
RenderFrom(bits, seps, k) ==
  SepRun(seps[k]) \o
    (IF k >= Len(bits) THEN <<>>
     ELSE <<IF bits[k + 1] THEN STEP_PLAY ELSE STEP_SILENT>> \o
          RenderFrom(bits, seps, k + 1))

Render(bits, seps) == RenderFrom(bits, seps, 0)

(* m separators at each gap of G and none elsewhere.                       *)
Layout(G, m, n) == [k \in 0..n |-> IF k \in G THEN m ELSE 0]

BeatGaps == {0, 4, 8, 12, 16}

(* The documented layout, |....|....|....|....| for 16 steps.              *)
Canonical(bits) == Render(bits, Layout(BeatGaps, 1, Len(bits)))

AmpAbsent == [num |-> <<>>, rest |-> ""]

AmpNumber(v) == [num |-> <<v>>, rest |-> ""]

AmpWord == [num |-> <<>>, rest |-> "abc"]

AmpFields == {AmpAbsent, AmpWord} \cup {AmpNumber(v) : v \in {-1, 0, 3, 10, 11}}

(* Step blocks of the pattern files: two playing blocks, a block one step  *)
(* short, a block one step long, a block with a foreign character.         *)
PatBlocks ==
  { Canonical(BitsOf({0}, 16)), Canonical(BitsOf({8}, 16)),
    Canonical(BitsOf({0}, 15)), Canonical(BitsOf({0}, 17)),
    Canonical(BitsOf({0}, 16)) \o <<OTHER_CHAR>> }

EmptyPatLine == [inst |-> "", block |-> <<>>, amp |-> AmpAbsent]

PatLines ==
  {[inst |-> i, block |-> b, amp |-> a] :
     i \in PatInstruments, b \in PatBlocks, a \in AmpFields} \cup {EmptyPatLine}

(* Lines of the instrumentation files; a line with no sample file token    *)
(* and the empty line are malformed.                                       *)
InsLines ==
  {[inst |-> i, file |-> f] : i \in Instruments, f \in SampleFiles \cup {""}}
    \cup {[inst |-> "", file |-> ""]}

----------------------------------------------------------------------------
(* The program: main, then audio::play.                                    *)

NoSteps == <<>>

NotRendered == [mode |-> "none"]

Init ==
  /\ pc = "pattern"
  /\ tempo \in Tempos
  /\ repeat \in BOOLEAN
  /\ patFile = <<>>
  /\ pattern = EmptyMap
  /\ insFile = <<>>
  /\ instrumentation = EmptyMap
  /\ tracks = EmptyMap
  /\ aggregate_steps = NoSteps
  /\ visited = {}
  /\ controller = EmptyBag
  /\ rendered = NotRendered
  /\ err = NoError
  /\ arg = <<>>
  /\ ret = <<>>

(* main returns the error e; everything it owned is dropped.               *)
Fail(e) ==
  /\ pc' = "error"
  /\ err' = e
  /\ patFile' = <<>>
  /\ pattern' = EmptyMap
  /\ insFile' = <<>>
  /\ instrumentation' = EmptyMap
  /\ tracks' = EmptyMap
  /\ aggregate_steps' = NoSteps
  /\ visited' = {}
  /\ controller' = EmptyBag
  /\ UNCHANGED <<tempo, repeat, rendered, arg, ret>>

(* Pattern::parse: the path is not a file.                                 *)
PatternMissing ==
  /\ pc = "pattern"
  /\ patFile = <<>>
  /\ Fail(FileDoesNotExistError)

(* Pattern::parse: File::open or the read of a line fails.                 *)
PatternIOError ==
  /\ pc = "pattern"
  /\ Fail(IOError)

(* Pattern::parse: one turn of the loop, on the next line l of the file.   *)
PatternLine ==
  /\ pc = "pattern"
  /\ Len(patFile) < MaxLines
  /\ \E l \in PatLines :
       LET r == pattern_line(pattern, l)
       IN  IF r.err # NoError
           THEN Fail(r.err)
           ELSE /\ pattern' = r.map
                /\ patFile' = Append(patFile, l)
                /\ UNCHANGED <<pc, tempo, repeat, insFile, instrumentation,
                               tracks, aggregate_steps, visited, controller,
                               rendered, err, arg, ret>>

(* Pattern::parse: the end of the file, Ok(Pattern(m)).                    *)
PatternReturn ==
  /\ pc = "pattern"
  /\ pc' = "instrumentation"
  /\ patFile' = <<>>
  /\ UNCHANGED <<tempo, repeat, pattern, insFile, instrumentation, tracks,
                 aggregate_steps, visited, controller, rendered, err, arg, ret>>

InstrumentationMissing ==
  /\ pc = "instrumentation"
  /\ insFile = <<>>
  /\ Fail(FileDoesNotExistError)

InstrumentationIOError ==
  /\ pc = "instrumentation"
  /\ Fail(IOError)

(* Instrumentation::parse: one turn of the loop, on the next line l.       *)
InstrumentationLine ==
  /\ pc = "instrumentation"
  /\ Len(insFile) < MaxLines
  /\ \E l \in InsLines :
       LET r == instrumentation_line(instrumentation, l)
       IN  IF r.err # NoError
           THEN Fail(r.err)
           ELSE /\ instrumentation' = r.map
                /\ insFile' = Append(insFile, l)
                /\ UNCHANGED <<pc, tempo, repeat, patFile, pattern, tracks,
                               aggregate_steps, visited, controller, rendered,
                               err, arg, ret>>

(* Instrumentation::parse: the end of the file; main calls audio::play.    *)
InstrumentationReturn ==
  /\ pc = "instrumentation"
  /\ pc' = "bind"
  /\ insFile' = <<>>
  /\ UNCHANGED <<tempo, repeat, patFile, pattern, instrumentation, tracks,
                 aggregate_steps, visited, controller, rendered, err, arg, ret>>

(* play: bind_tracks consumes the pattern and the instrumentation, in one  *)
(* of the orders the hash containers can iterate in.                       *)
BindTracks ==
  /\ pc = "bind"
  /\ \E fo \in FileOrders(instrumentation) :
       \E io \in InstrumentOrders(instrumentation) :
         LET r == bind_tracks(pattern, fo, io)
         IN  /\ tracks' = r.tracks
             /\ aggregate_steps' = r.aggregate
  /\ pc' = "mix"
  /\ pattern' = EmptyMap
  /\ instrumentation' = EmptyMap
  /\ UNCHANGED <<tempo, repeat, patFile, insFile, visited, controller,
                 rendered, err, arg, ret>>

(* mix_tracks: one turn of the loop over the tracks, on a track not yet    *)
(* visited; the sample file resolves, opens and decodes, or it does not.   *)
MixTrack ==
  /\ pc = "mix"
  /\ \E sample_file \in DOMAIN tracks \ visited :
       \E outcome \in {"ok", "missing", "unreadable", "undecodable"} :
         IF outcome = "missing" THEN Fail(FileDoesNotExistError)
         ELSE IF outcome = "unreadable" THEN Fail(IOError)
         ELSE IF outcome = "undecodable" THEN Fail(AudioDecoderError)
         ELSE /\ controller' =
                   schedule(tempo, sample_file, tracks[sample_file], 0, controller)
              /\ visited' = visited \cup {sample_file}
              /\ UNCHANGED <<pc, tempo, repeat, patFile, pattern, insFile,
                             instrumentation, tracks, aggregate_steps,
                             rendered, err, arg, ret>>

(* A faulty mix_tracks: Ok(mixer) is returned from inside the loop, with    *)
(* tracks still to visit.                                                  *)
MixReturn_early ==
  /\ pc = "mix"
  /\ pc' = IF repeat THEN "play_repeat" ELSE "play_once"
  /\ tracks' = EmptyMap
  /\ visited' = {}
  /\ UNCHANGED <<tempo, repeat, patFile, pattern, insFile, instrumentation,
                 aggregate_steps, controller, rendered, err, arg, ret>>

(* mix_tracks: the loop is over, Ok(mixer); play goes on to render.        *)
MixReturn ==
  /\ pc = "mix"
  /\ visited = DOMAIN tracks
  /\ pc' = IF repeat THEN "play_repeat" ELSE "play_once"
  /\ tracks' = EmptyMap
  /\ visited' = {}
  /\ UNCHANGED <<tempo, repeat, patFile, pattern, insFile, instrumentation,
                 aggregate_steps, controller, rendered, err, arg, ret>>

(* play_repeat: no device, a panic of the pad computation, or the padded,  *)
(* trimmed mix is handed to the device and the thread parks for good.      *)
PlayRepeat ==
  /\ pc = "play_repeat"
  /\ \E device \in BOOLEAN :
       IF ~device THEN Fail(AudioDeviceError)
       ELSE LET trailing_silence == trailing_silent_steps(aggregate_steps)
                pad == delay_pad_duration(tempo, trailing_silence)
                take == measure_duration(tempo)
            IN  /\ IF IsPanic(pad) \/ IsPanic(take)
                   THEN pc' = "panic" /\ rendered' = rendered
                   ELSE /\ pc' = "parked"
                        /\ rendered' = [mode |-> "repeat", source |-> controller,
                                        delay |-> pad, take_duration |-> take]
                /\ UNCHANGED <<tempo, repeat, patFile, pattern, insFile,
                               instrumentation, tracks, aggregate_steps,
                               visited, controller, err, arg, ret>>

(* play_once: no device, or the mix is played and the thread sleeps for a  *)
(* measure; then main returns Ok.                                          *)
PlayOnce ==
  /\ pc = "play_once"
  /\ \E device \in BOOLEAN :
       IF ~device THEN Fail(AudioDeviceError)
       ELSE /\ pc' = IF IsPanic(measure_duration(tempo)) THEN "panic" ELSE "done"
            /\ rendered' = [mode |-> "once", source |-> controller]
            /\ UNCHANGED <<tempo, repeat, patFile, pattern, insFile,
                           instrumentation, tracks, aggregate_steps, visited,
                           controller, err, arg, ret>>

Next ==
  \/ PatternMissing
  \/ PatternIOError
  \/ PatternLine
  \/ PatternReturn
  \/ InstrumentationMissing
  \/ InstrumentationIOError
  \/ InstrumentationLine
  \/ InstrumentationReturn
  \/ BindTracks
  \/ MixTrack
  \/ MixReturn
  \/ PlayRepeat
  \/ PlayOnce

Spec == Init /\ [][Next]_vars

----------------------------------------------------------------------------
(* Specifications of single functions: the argument is drawn by Init and   *)
(* one action applies the function.                                        *)

FunctionInit(args) ==
  /\ pc = "call"
  /\ arg \in args
  /\ ret = <<>>
  /\ tempo = 120
  /\ repeat = FALSE
  /\ patFile = <<>>
  /\ pattern = EmptyMap
  /\ insFile = <<>>
  /\ instrumentation = EmptyMap
  /\ tracks = EmptyMap
  /\ aggregate_steps = NoSteps
  /\ visited = {}
  /\ controller = EmptyBag
  /\ rendered = NotRendered
  /\ err = NoError

FunctionReturn(value) ==
  /\ pc = "call"
  /\ pc' = "returned"
  /\ ret' = value
  /\ UNCHANGED <<tempo, repeat, patFile, pattern, insFile, instrumentation,
                 tracks, aggregate_steps, visited, controller, rendered, err,
                 arg>>

(* Steps::trailing_silent_steps on every 16-step sequence.                 *)
AllSteps == [1..STEPS_PER_MEASURE -> BOOLEAN]

InitSteps == FunctionInit(AllSteps)

CallTrailingSilentSteps == FunctionReturn(trailing_silent_steps(arg))

NextSteps == CallTrailingSilentSteps

SpecSteps == InitSteps /\ [][NextSteps]_vars

(* parse_track on one line.  The step blocks: sequences of 0, 4, 15, 16    *)
(* and 17 steps, with one or two separators at every subset of a few       *)
(* gaps, and with a foreign character at the end or in the middle.         *)
TrackBits ==
  { BitsOf({}, 16), BitsOf({0, 8}, 16), BitsOf(0..15, 16),
    BitsOf({}, 15), BitsOf({0}, 17), BitsOf({1}, 4), BitsOf({}, 0) }

GapChoices == {0, 3, 4, 8, 12, 16}

CleanBlocks ==
  {Render(b, Layout(G, m, Len(b))) : b \in TrackBits, G \in SUBSET GapChoices, m \in 1..2}

TrackBlocks ==
  CleanBlocks
    \cup {b \o <<OTHER_CHAR>> : b \in CleanBlocks}
    \cup {<<SEPARATOR, STEP_PLAY, OTHER_CHAR>> \o b : b \in CleanBlocks}

AmpNumberWord == [num |-> <<5>>, rest |-> "abc"]

TrackLines ==
  {[inst |-> i, block |-> b, amp |-> a] :
     i \in {"kick", ""}, b \in TrackBlocks, a \in AmpFields \cup {AmpNumberWord}}

InitTrack == FunctionInit(TrackLines)

CallParseTrack == FunctionReturn(parse_track(arg))

NextTrack == CallParseTrack

SpecTrack == InitTrack /\ [][NextTrack]_vars

----------------------------------------------------------------------------
(* Properties of the track binder.                                         *)

(* The instruments bound to sample file f that have a pattern entry.       *)
Playing(pat, ins, f) == ins[f] \cap DOMAIN pat

(* C1: bind_tracks returns exactly one track per sample file of the        *)
(* instrumentation; the track's steps are the step-wise union of the       *)
(* pattern entries of the instruments bound to the file, its amplitude is  *)
(* the minimum amplitude among the bound instruments that have a pattern   *)
(* entry, and a file with no such instrument gets silent steps and         *)
(* amplitude 1.0.                                                          *)
C1_BindTracks ==
  [][pc = "bind" /\ pc' = "mix" =>
       /\ DOMAIN tracks' = DOMAIN instrumentation
       /\ \A f \in DOMAIN instrumentation :
            LET bound == Playing(pattern, instrumentation, f)
            IN  /\ tracks'[f].steps =
                     [i \in 1..STEPS_PER_MEASURE |->
                        \E inst \in bound : pattern[inst].steps[i]]
                /\ tracks'[f].amp =
                     IF bound = {} THEN 10
                     ELSE MinOf({pattern[inst].amp : inst \in bound})]_vars

(* Two instruments share tom.wav, one playing step 0 at full volume and    *)
(* one playing step 8 at 0.3; kick.wav has no playing instrument.          *)
C1_Witness ==
  /\ pc = "mix"
  /\ DOMAIN tracks = {"tom.wav", "kick.wav"}
  /\ tracks["tom.wav"] = [steps |-> BitsOf({0, 8}, 16), amp |-> 3]
  /\ tracks["kick.wav"] = [steps |-> BitsOf({}, 16), amp |-> 10]

(* C2: the tracks and the aggregate step sequence bind_tracks returns are  *)
(* the same for every order of the sample files and every order of each    *)
(* sample file's instruments.                                              *)
C2_OrderIndependent ==
  [][pc = "bind" /\ pc' = "mix" =>
       \A fo \in FileOrders(instrumentation) :
         \A io \in InstrumentOrders(instrumentation) :
           bind_tracks(pattern, fo, io) =
             [tracks |-> tracks', aggregate |-> aggregate_steps']]_vars

(* Two sample files, each with a playing instrument, at different          *)
(* amplitudes and steps.                                                   *)
C2_Witness ==
  /\ pc = "mix"
  /\ DOMAIN tracks = {"tom.wav", "kick.wav"}
  /\ tracks["tom.wav"].steps # tracks["kick.wav"].steps
  /\ tracks["tom.wav"].amp < tracks["kick.wav"].amp
  /\ \A f \in DOMAIN tracks : \E i \in 1..STEPS_PER_MEASURE : tracks[f].steps[i]

----------------------------------------------------------------------------
(* Properties of the step sequences.                                       *)

(* The number of consecutive silent steps at the end of s: the largest k   *)
(* such that the last k steps are all silent.                              *)
SilentTail(s) ==
  MaxOf({k \in 0..Len(s) : \A i \in (Len(s) - k + 1)..Len(s) : ~s[i]})

(* C3: trailing_silent_steps returns the number of consecutive silent      *)
(* steps at the end of the sequence: 0 when the last step is true, 16      *)
(* when the sequence is entirely silent, 15 - n when the last true step    *)
(* is at index n.                                                          *)
C3_TrailingSilentSteps ==
  pc = "returned" =>
    /\ ret = SilentTail(arg)
    /\ (arg[STEPS_PER_MEASURE] => ret = 0)
    /\ ((\A i \in DOMAIN arg : ~arg[i]) => ret = 16)
    /\ \A n \in 0..15 :
         (arg[n + 1] /\ \A i \in (n + 2)..STEPS_PER_MEASURE : ~arg[i])
           => ret = 15 - n

----------------------------------------------------------------------------
(* Properties of the parse loops.                                          *)

(* The instrument tokens of the lines read so far.                         *)
Tokens(file) == {file[k].inst : k \in DOMAIN file}

DistinctTokens(file) ==
  \A j, k \in DOMAIN file : file[j].inst = file[k].inst => j = k

(* The mapping a file of bindings denotes: each sample file named on a     *)
(* line, with the instruments of the lines that name it.                   *)
BindingsOf(file) ==
  [s \in {file[k].file : k \in DOMAIN file} |->
     {file[k].inst : k \in {j \in DOMAIN file : file[j].file = s}}]

(* C4: on well-formed lines Instrumentation::parse returns a duplicate-    *)
(* instrument error if and only if an instrument token occurs on two       *)
(* lines, whatever sample files the lines name; otherwise it succeeds,     *)
(* instruments naming the same sample file share that file's set, and      *)
(* every instrument appears under exactly one sample file.                 *)
C4_DuplicateInstrument ==
  [][pc = "instrumentation" =>
       /\ err'.kind = "DuplicateInstrumentError" => err'.inst \in Tokens(insFile)
       /\ err'.kind = "ParseError" => (err'.line.inst = "" \/ err'.line.file = "")
       /\ pc' = "instrumentation" =>
            /\ DistinctTokens(insFile')
            /\ instrumentation' = BindingsOf(insFile')
       /\ pc' = "bind" =>
            /\ instrumentation' = BindingsOf(insFile)
            /\ \A i \in Tokens(insFile) :
                 Cardinality({s \in DOMAIN instrumentation' :
                                i \in instrumentation'[s]}) = 1]_vars

(* A second line named an instrument of an earlier line.                   *)
C4_Witness ==
  /\ pc = "error"
  /\ err = DuplicateInstrumentError("tom-2")

(* The steps a block denotes: its step characters in order.                *)
IsStep(c) == c \in {STEP_PLAY, STEP_SILENT}

StepChars(block) == SelectSeq(block, IsStep)

StepsOfBlock(block) ==
  [i \in 1..Len(StepChars(block)) |-> StepChars(block)[i] = STEP_PLAY]

(* The amplitude field is absent, or a number in [0, 1] and nothing more.  *)
GoodAmplitude(f) ==
  /\ f.rest = ""
  /\ f.num # <<>> => 0 <= f.num[1] /\ f.num[1] <= 10

AmplitudeOf(f) == IF f.num = <<>> THEN 10 ELSE f.num[1]

(* A pattern line the grammar accepts: an instrument, a block of step and  *)
(* separator characters with 16 steps, and a good amplitude field.         *)
WellFormedTrack(l) ==
  /\ l.inst # ""
  /\ \A k \in DOMAIN l.block : l.block[k] \in {STEP_PLAY, STEP_SILENT, SEPARATOR}
  /\ Len(StepChars(l.block)) = STEPS_PER_MEASURE
  /\ GoodAmplitude(l.amp)

(* C5: on well-formed lines Pattern::parse returns a duplicate error and   *)
(* no Pattern whenever two lines carry the same instrument name, whatever  *)
(* their steps and amplitudes; entries are never merged or overwritten.    *)
(* When no name repeats it returns a Pattern with one entry per line.      *)
C5_DuplicatePattern ==
  [][pc = "pattern" =>
       /\ err'.kind = "DuplicatePatternError" =>
            /\ err'.line.inst \in Tokens(patFile)
            /\ pattern' = EmptyMap
       /\ err'.kind = "ParseError" => ~WellFormedTrack(err'.line)
       /\ pc' = "pattern" =>
            /\ DistinctTokens(patFile')
            /\ DOMAIN pattern' = Tokens(patFile')
            /\ \A k \in DOMAIN patFile' :
                 pattern'[patFile'[k].inst] =
                   [steps |-> StepsOfBlock(patFile'[k].block),
                    amp |-> AmplitudeOf(patFile'[k].amp)]
       /\ pc' = "instrumentation" =>
            /\ pattern' = pattern
            /\ Cardinality(DOMAIN pattern') = Len(patFile)]_vars

(* A second line named the instrument of an earlier line, with other       *)
(* steps and another amplitude.                                            *)
C5_Witness ==
  /\ pc = "error"
  /\ err.kind = "DuplicatePatternError"
  /\ err.line.inst = "tom-1"
  /\ err.line.block = Canonical(BitsOf({8}, 16))
  /\ err.line.amp = AmpNumber(3)

(* C6: every step sequence in the program has exactly 16 steps: a line is  *)
(* accepted only when its block holds exactly 16 step characters, and the  *)
(* entries of the pattern, the tracks and the aggregate built by           *)
(* bind_tracks all have 16 steps.                                          *)
C6_SixteenSteps ==
  /\ \A k \in DOMAIN patFile :
       Len(StepChars(patFile[k].block)) = STEPS_PER_MEASURE
  /\ \A i \in DOMAIN pattern : Len(pattern[i].steps) = STEPS_PER_MEASURE
  /\ \A f \in DOMAIN tracks : Len(tracks[f].steps) = STEPS_PER_MEASURE
  /\ aggregate_steps # NoSteps => Len(aggregate_steps) = STEPS_PER_MEASURE
  /\ Len(zeros) = STEPS_PER_MEASURE

(* Two parsed sequences were united into one track and the aggregate.      *)
C6_Witness ==
  /\ pc = "mix"
  /\ \E f \in DOMAIN tracks : tracks[f].steps = BitsOf({0, 8}, 16)
  /\ aggregate_steps = BitsOf({0, 8}, 16)

(* C8: a line with a valid instrument and step block is accepted with      *)
(* amplitude v when the amplitude field is a number v in [0, 1], with      *)
(* amplitude 1.0 when the field is absent, and rejected when the field is  *)
(* a number below 0 or above 1 or not a number; so every amplitude of a    *)
(* pattern and of a track lies in [0, 1].                                  *)
C8_Amplitude ==
  /\ \A k \in DOMAIN patFile :
       LET l == patFile[k]
       IN  /\ GoodAmplitude(l.amp)
           /\ pattern[l.inst].amp = AmplitudeOf(l.amp)
  /\ (err.kind = "ParseError" /\ "block" \in DOMAIN err.line) =>
       ~WellFormedTrack(err.line)
  /\ \A i \in DOMAIN pattern : 0 <= pattern[i].amp /\ pattern[i].amp <= 10
  /\ \A f \in DOMAIN tracks : 0 <= tracks[f].amp /\ tracks[f].amp <= 10

(* A line with amplitude 0.0 and a line without an amplitude field were    *)
(* accepted.                                                               *)
C8_Witness ==
  /\ pc = "pattern"
  /\ Len(patFile) = 2
  /\ patFile[1].amp = AmpNumber(0)
  /\ patFile[2].amp = AmpAbsent
  /\ pattern[patFile[1].inst].amp = 0
  /\ pattern[patFile[2].inst].amp = 10

(* The beat-group shape |....|....|....|....| : 21 characters, the 1st,    *)
(* 6th, 11th, 16th and 21st separators and the others steps.               *)
BeatShape(block) ==
  /\ Len(block) = 21
  /\ \A k \in 1..21 :
       IF k \in {1, 6, 11, 16, 21} THEN block[k] = SEPARATOR ELSE IsStep(block[k])

(* C7 as stated: a step block is accepted only when it has the beat-group  *)
(* shape; 16 step characters with missing, extra or misplaced separators   *)
(* are a parse error.                                                      *)
C7_BeatShapeOnly ==
  (pc = "returned" /\ ret.ok) => BeatShape(arg.block)

(* C7 as amended: a line with an instrument and a good amplitude field is  *)
(* accepted exactly when its step block is made of step and separator      *)
(* characters only and holds exactly 16 step characters, wherever the      *)
(* separators stand and however many there are; the steps parsed are the   *)
(* step characters in order.                                               *)
C7_SeparatorsSkipped ==
  (pc = "returned" /\ arg.inst # "" /\ GoodAmplitude(arg.amp)) =>
    /\ ret.ok <=>
         /\ \A k \in DOMAIN arg.block :
              arg.block[k] \in {STEP_PLAY, STEP_SILENT, SEPARATOR}
         /\ Len(StepChars(arg.block)) = STEPS_PER_MEASURE
    /\ ret.ok => ret.steps = StepsOfBlock(arg.block)

(* A block of 16 step characters and no separator at all was accepted.     *)
C7_Witness ==
  /\ pc = "returned"
  /\ ret.ok
  /\ Len(arg.block) = STEPS_PER_MEASURE
  /\ \A k \in DOMAIN arg.block : IsStep(arg.block[k])

----------------------------------------------------------------------------
(* Properties of the timing and of the mixer.                              *)

(* C9: in repeat playback the start delay of the mix is                    *)
(* step_duration(T) * (2 - T/120) * k with k = trailing_silent_steps of    *)
(* the aggregate step sequence, the aggregate being the union of the step  *)
(* sequences of all tracks: when a step triggers, k is fixed by the        *)
(* latest triggering step over all sample files.                           *)
C9_RepeatPad ==
  /\ pc = "mix" =>
       aggregate_steps =
         [i \in 1..STEPS_PER_MEASURE |-> \E f \in DOMAIN tracks : tracks[f].steps[i]]
  /\ pc = "parked" =>
       LET k == trailing_silent_steps(aggregate_steps)
           latest == {i \in 0..15 : aggregate_steps[i + 1]}
       IN  /\ rendered.mode = "repeat"
           /\ rendered.delay =
                RMul(RMul(Rat(240, 16 * tempo), Rat(240 - tempo, 120)), Rat(k, 1))
           /\ latest # {} => k = 15 - MaxOf(latest)

(* At tempo 60 a mix whose latest trigger is step 8 is padded by           *)
(* 0.25 s * 1.5 * 7 = 21/8 s.                                              *)
C9_Witness ==
  /\ pc = "parked"
  /\ tempo = 60
  /\ aggregate_steps = BitsOf({0, 8}, 16)
  /\ rendered.delay = <<21, 8>>

(* C10: for each track, mix_tracks schedules exactly one copy of the       *)
(* sample for each playing step i and none for a silent step; the copy is  *)
(* delayed by step_duration(T) * i, with measure_duration(T) = 240 / T     *)
(* seconds and step_duration(T) = measure_duration(T) / 16 (2.0 s and      *)
(* 0.125 s at T = 120), and is scaled by the track's amplitude.            *)
C10_MixTracks ==
  /\ measure_duration(tempo) = Rat(240, tempo)
  /\ step_duration(tempo) = Rat(240, 16 * tempo)
  /\ tempo = 120 => measure_duration(tempo) = <<2, 1>> /\ step_duration(tempo) = <<1, 8>>
  /\ pc = "mix" =>
       /\ \A f \in visited :
            \A i \in 0..15 :
              CopiesIn([file |-> f, amplify |-> tracks[f].amp,
                        delay |-> Rat(15 * i, tempo)], controller)
                = IF tracks[f].steps[i + 1] THEN 1 ELSE 0
       /\ BagCardinality(controller) =
            Cardinality({<<f, i>> \in visited \X (1..STEPS_PER_MEASURE) :
                           tracks[f].steps[i]})

(* Both sample files are mixed at tempo 120: tom.wav at steps 0 and 8,     *)
(* one second apart, and kick.wav not at all.                              *)
C10_Witness ==
  /\ pc = "mix"
  /\ tempo = 120
  /\ visited = {"tom.wav", "kick.wav"}
  /\ controller =
       SetToBag({[file |-> "tom.wav", amplify |-> 3, delay |-> <<0, 1>>],
                 [file |-> "tom.wav", amplify |-> 3, delay |-> <<1, 1>>]})

----------------------------------------------------------------------------
(* The whole mix of a set of tracks: one copy per track and playing step.  *)
FullMix(trs, t) ==
  SetToBag({[file |-> x[1], amplify |-> trs[x[1]].amp, delay |-> Rat(15 * x[2], t)] :
              x \in {y \in (DOMAIN trs) \X (0..(STEPS_PER_MEASURE - 1)) :
                       trs[y[1]].steps[y[2] + 1]}})

Rendering == {"play_repeat", "play_once"}

(* C11: no partial mix is ever played.  A render happens only in play_once *)
(* or play_repeat, on the mixer that mix_tracks returned; mix_tracks       *)
(* returns only when every sample file of every track has been resolved    *)
(* and decoded and every playing step scheduled; when a file fails to      *)
(* resolve or decode, play ends with that error, nothing has been rendered *)
(* and nothing runs afterwards.                                            *)
C11_NoPartialMix ==
  [][ /\ rendered' # rendered =>
           /\ pc \in Rendering
           /\ rendered = NotRendered
           /\ rendered'.source = controller
      /\ (pc = "mix" /\ pc' \in Rendering) =>
           /\ visited = DOMAIN tracks
           /\ controller' = FullMix(tracks, tempo)
      /\ (pc = "mix" /\ pc' = "error") =>
           /\ err' \in {FileDoesNotExistError, IOError, AudioDecoderError}
           /\ rendered' = NotRendered
      /\ pc # "error"
    ]_vars

(* Two tracks, tom.wav and kick.wav, were both decoded and scheduled, and  *)
(* the mix played once holds the copies of both.                           *)
C11_Witness ==
  /\ pc = "done"
  /\ rendered.mode = "once"
  /\ \E c \in BagToSet(rendered.source) : c.file = "tom.wav"
  /\ \E c \in BagToSet(rendered.source) : c.file = "kick.wav"

----------------------------------------------------------------------------
(* Pattern::parse and Instrumentation::parse on whole files: the file is   *)
(* drawn by Init and one action runs the loop over all its lines.  A       *)
(* result is Ok(value) when err is NoError, and Err(err) otherwise.        *)

(* A faulty loop: empty lines are passed over.                             *)
RECURSIVE pattern_lines_skipping_empty(_, _)
pattern_lines_skipping_empty(m, lines) ==
  IF lines = <<>> THEN [value |-> m, err |-> NoError]
  ELSE IF Head(lines) = EmptyPatLine
  THEN pattern_lines_skipping_empty(m, Tail(lines))
  ELSE LET r == pattern_line(m, Head(lines))
       IN  IF r.err # NoError THEN [value |-> EmptyMap, err |-> r.err]
           ELSE pattern_lines_skipping_empty(r.map, Tail(lines))

(* Pattern::parse, the loop over r.lines() from the map m on.              *)
RECURSIVE pattern_lines(_, _)
pattern_lines(m, lines) ==
  IF lines = <<>> THEN [value |-> m, err |-> NoError]
  ELSE LET r == pattern_line(m, Head(lines))
       IN  IF r.err # NoError THEN [value |-> EmptyMap, err |-> r.err]
           ELSE pattern_lines(r.map, Tail(lines))

Pattern_parse(lines) == pattern_lines(EmptyMap, lines)

(* A faulty loop: it goes on after an error and returns the last one.      *)
RECURSIVE instrumentation_lines_last_error(_, _)
instrumentation_lines_last_error(m, lines) ==
  IF lines = <<>> THEN [value |-> m, err |-> NoError]
  ELSE LET r == instrumentation_line(m, Head(lines))
           s == instrumentation_lines_last_error(r.map, Tail(lines))
       IN  IF s.err # NoError THEN s
           ELSE IF r.err # NoError THEN [value |-> EmptyMap, err |-> r.err]
           ELSE s

(* Instrumentation::parse, the loop over r.lines() from the map m on.      *)
RECURSIVE instrumentation_lines(_, _)
instrumentation_lines(m, lines) ==
  IF lines = <<>> THEN [value |-> m, err |-> NoError]
  ELSE LET r == instrumentation_line(m, Head(lines))
       IN  IF r.err # NoError THEN [value |-> EmptyMap, err |-> r.err]
           ELSE instrumentation_lines(r.map, Tail(lines))

Instrumentation_parse(lines) == instrumentation_lines(EmptyMap, lines)

MaxFileLines == 3

EmptyInsLine == [inst |-> "", file |-> ""]

(* Lines of the pattern files parsed whole: sixteen steps or fifteen, the  *)
(* amplitude absent or out of range, and the empty line.                   *)
ParsePatLines ==
  {[inst |-> i, block |-> b, amp |-> a] :
     i \in PatInstruments,
     b \in {Canonical(BitsOf({0}, 16)), Canonical(BitsOf({0}, 15))},
     a \in {AmpAbsent, AmpNumber(11)}} \cup {EmptyPatLine}

FilesOf(L) == UNION {[1..n -> L] : n \in 0..MaxFileLines}

ParseFiles ==
  {[parser |-> "pattern", lines |-> f] : f \in FilesOf(ParsePatLines)}
    \cup {[parser |-> "instrumentation", lines |-> f] : f \in FilesOf(InsLines)}

InitParse == FunctionInit(ParseFiles)

CallPatternParse ==
  /\ arg.parser = "pattern"
  /\ FunctionReturn(Pattern_parse(arg.lines))

CallInstrumentationParse ==
  /\ arg.parser = "instrumentation"
  /\ FunctionReturn(Instrumentation_parse(arg.lines))

NextParse ==
  \/ CallPatternParse
  \/ CallInstrumentationParse

SpecParse == InitParse /\ [][NextParse]_vars

----------------------------------------------------------------------------
(* Properties of the parsers on whole files.                               *)

WellFormedBinding(l) == l.inst # "" /\ l.file # ""

(* No line of the file is malformed and no instrument is named twice.      *)
FaultFree(parser, lines) ==
  /\ DistinctTokens(lines)
  /\ \A k \in DOMAIN lines :
       IF parser = "pattern" THEN WellFormedTrack(lines[k])
       ELSE WellFormedBinding(lines[k])

IsEmptyLine(l) == l \in {EmptyPatLine, EmptyInsLine}

IsNonEmptyLine(l) == ~IsEmptyLine(l)

NonEmptyLines(lines) == SelectSeq(lines, IsNonEmptyLine)

ParseOf(parser, lines) ==
  IF parser = "pattern" THEN Pattern_parse(lines) ELSE Instrumentation_parse(lines)

(* C12, as stated: the parse result of a file equals that of the same file *)
(* with its empty lines removed, and an empty line among otherwise valid   *)
(* lines yields no error.                                                  *)
C12_EmptyLinesSkipped ==
  pc = "returned" =>
    /\ ret = ParseOf(arg.parser, NonEmptyLines(arg.lines))
    /\ FaultFree(arg.parser, NonEmptyLines(arg.lines)) => ret.err = NoError

(* C12, amended: Pattern::parse and Instrumentation::parse take every line *)
(* of the file for a record, the empty line too: a file with an empty line *)
(* yields no Pattern and no Instrumentation but an error, which is the     *)
(* ParseError carrying the empty line when no earlier line is at fault.    *)
C12_EmptyLineRejected ==
  pc = "returned" =>
    \A k \in DOMAIN arg.lines :
      IsEmptyLine(arg.lines[k]) =>
        /\ ret.err # NoError
        /\ ret.value = EmptyMap
        /\ FaultFree(arg.parser, SubSeq(arg.lines, 1, k - 1)) =>
             ret.err = ParseError(arg.lines[k])

(* An empty line between two valid lines of a pattern file: the parse      *)
(* returns the ParseError of the empty line.                               *)
C12_Witness ==
  /\ pc = "returned"
  /\ arg.parser = "pattern"
  /\ Len(arg.lines) = 3
  /\ arg.lines[2] = EmptyPatLine
  /\ FaultFree("pattern", <<arg.lines[1], arg.lines[3]>>)
  /\ ret = [value |-> EmptyMap, err |-> ParseError(EmptyPatLine)]

----------------------------------------------------------------------------
(* Line k of the file is malformed.                                        *)
Malformed(parser, lines, k) ==
  IF parser = "pattern" THEN ~WellFormedTrack(lines[k])
  ELSE ~WellFormedBinding(lines[k])

(* Line k names the instrument of an earlier line.                         *)
Repeats(lines, k) == \E j \in 1..(k - 1) : lines[j].inst = lines[k].inst

Faults(parser, lines) ==
  {k \in DOMAIN lines : Malformed(parser, lines, k) \/ Repeats(lines, k)}

(* The error of line k: a malformed line is a ParseError, even when it     *)
(* names an instrument again; a well-formed one is a duplicate.            *)
FaultOf(parser, lines, k) ==
  IF Malformed(parser, lines, k) THEN ParseError(lines[k])
  ELSE IF parser = "pattern" THEN DuplicatePatternError(lines[k])
  ELSE DuplicateInstrumentError(lines[k].inst)

(* C13: parsing stops at the first offending line in file order.  On a     *)
(* file with faults Pattern::parse and Instrumentation::parse return the   *)
(* error of the earliest faulty line, carrying that line (or, for a        *)
(* duplicate binding, its instrument), whatever faults the later lines     *)
(* have; a duplicate is reported for the second line that names the        *)
(* instrument, not the first.  On a file without faults they return Ok.    *)
C13_FirstFault ==
  pc = "returned" =>
    LET lines == arg.lines
        F == Faults(arg.parser, lines)
    IN  IF F = {} THEN ret.err = NoError
        ELSE LET k == MinOf(F)
             IN  /\ ret = [value |-> EmptyMap, err |-> FaultOf(arg.parser, lines, k)]
                 /\ ret.err.kind \in {"DuplicatePatternError", "DuplicateInstrumentError"}
                      => /\ k > 1
                         /\ Cardinality({j \in 1..k : lines[j].inst = lines[k].inst}) = 2

(* An instrumentation file with two faulty lines: the second line binds   *)
(* the instrument of the first again, the third line is empty; the parse   *)
(* returns the duplicate of the second line.                               *)
C13_Witness ==
  /\ pc = "returned"
  /\ arg.parser = "instrumentation"
  /\ Len(arg.lines) = 3
  /\ Faults("instrumentation", arg.lines) = {2, 3}
  /\ arg.lines[2].inst = arg.lines[1].inst
  /\ arg.lines[3] = EmptyInsLine
  /\ ret.err = DuplicateInstrumentError(arg.lines[1].inst)

----------------------------------------------------------------------------
(* delay_pad_duration on the tempos of the command line and every count of *)
(* trailing silent steps.                                                  *)

(* The greatest tempo the command line accepts, tempo: u16.                *)
U16Max == 65535

MaxTempo == 300

PadArgs ==
  {[tempo |-> t, trailing |-> k] :
     t \in (1..MaxTempo) \cup {U16Max}, k \in 0..STEPS_PER_MEASURE}

InitPad == FunctionInit(PadArgs)

CallDelayPadDuration ==
  FunctionReturn(delay_pad_duration(arg.tempo, arg.trailing))

NextPad == CallDelayPadDuration

SpecPad == InitPad /\ [][NextPad]_vars

(* C14: in repeat playback every scheduled trigger starts inside the       *)
(* repeated window: the pad of the mix plus the trigger's own delay        *)
(* step_duration(T) * i is less than measure_duration(T), the length the   *)
(* padded mix is trimmed to.                                               *)
C14_TriggersInsideWindow ==
  pc = "parked" =>
    \A c \in BagToSet(rendered.source) :
      RLess(RAdd(rendered.delay, c.delay), rendered.take_duration)

(* C15: for every tempo of the command line and every count k of trailing  *)
(* silent steps, delay_pad_duration returns a duration, which is not       *)
(* negative; the computation does not abort, for T > 240 and k = 0 either. *)
C15_PadWellDefined ==
  pc = "returned" =>
    /\ ~IsPanic(ret)
    /\ ret[1] >= 0
    /\ arg.trailing = 0 => ret = <<0, 1>>

====
